---- MODULE Spec2Model ----
(***************************************************************************)
(* HeartLink environment diagnostics: the command runner, the GPU and      *)
(* .env probes, the diagnostic engine with its worst-status rollup         *)
(* (backend/app/core/env_check.py) and the command-line front end that     *)
(* formats and persists the report (backend/app/cli/heartlink_cli.py).     *)
(*                                                                         *)
(* A text is a sequence of chunks: text that comes from outside the        *)
(* program (process output, file content) is one character per chunk, the  *)
(* program's own fixed messages are one chunk each.                        *)
(***************************************************************************)
EXTENDS Integers, Sequences, FiniteSets, TLC

VARIABLES
    mode,            \* "auto" (--auto-check) or "interactive"
    pc,              \* position of the single thread of control
    choice,          \* last menu input read by interactive_menu
    runs,            \* number of run_environment_check calls started
    data_dir,        \* file system: PROJECT_ROOT/data ("absent" or "dir")
    report_file,     \* file system: content of data/env_report.txt
    results,         \* run_env_diagnostics: the insertion-ordered dict
    status_records,  \* run_env_diagnostics: the list of statuses
    spawned,         \* commands handed to subprocess.run during this run
    report_text,     \* run_environment_check: the formatted report
    fault,           \* the exception that left its function uncaught
    call_arg,        \* argument of the function applied in SpecEnv/SpecAgg
    call_ret         \* its return value

vars == <<mode, pc, choice, runs, data_dir, report_file, results,
          status_records, spawned, report_text, fault, call_arg, call_ret>>

-----------------------------------------------------------------------------
(* Bounds *)

MaxRuns == 2      \* menu selections of the diagnostic action per process
MaxLines == 2     \* lines of the .env file

-----------------------------------------------------------------------------
(* Texts *)

NoFile == <<"<absent>">>
NoText == <<"<unset>">>
NoCall == [called |-> FALSE]
NoFault == [exc |-> "none", from |-> "none"]

Whitespace == {" ", "\t", "\n", "\r"}

RECURSIVE LStrip(_)
LStrip(s) ==
    IF s = <<>> THEN <<>>
    ELSE IF Head(s) \in Whitespace THEN LStrip(Tail(s)) ELSE s

RECURSIVE RStrip(_)
RStrip(s) ==
    IF s = <<>> THEN <<>>
    ELSE IF s[Len(s)] \in Whitespace THEN RStrip(SubSeq(s, 1, Len(s) - 1)) ELSE s

\* str.strip()
Strip(s) == RStrip(LStrip(s))

\* str.startswith(prefix)
StartsWith(s, prefix) ==
    /\ Len(s) >= Len(prefix)
    /\ SubSeq(s, 1, Len(prefix)) = prefix

\* s.split("=", 1)[1] for an s that contains "="
AfterFirstEq(s) ==
    LET i == CHOOSE k \in 1..Len(s) : s[k] = "=" /\ \A j \in 1..(k - 1) : s[j] # "="
    IN  SubSeq(s, i + 1, Len(s))

\* str.splitlines() over the line boundaries "\n", "\r\n" and "\r"
RECURSIVE SplitFrom(_, _, _, _)
SplitFrom(s, i, cur, acc) ==
    IF i > Len(s) THEN (IF cur = <<>> THEN acc ELSE Append(acc, cur))
    ELSE IF s[i] = "\n" THEN SplitFrom(s, i + 1, <<>>, Append(acc, cur))
    ELSE IF s[i] = "\r" THEN
        IF i < Len(s) /\ s[i + 1] = "\n"
        THEN SplitFrom(s, i + 2, <<>>, Append(acc, cur))
        ELSE SplitFrom(s, i + 1, <<>>, Append(acc, cur))
    ELSE SplitFrom(s, i + 1, Append(cur, s[i]), acc)

SplitLines(s) == SplitFrom(s, 1, <<>>, <<>>)

\* "\n".join(lines)
RECURSIVE JoinLines(_)
JoinLines(lines) ==
    IF lines = <<>> THEN <<>>
    ELSE IF Len(lines) = 1 THEN lines[1]
    ELSE lines[1] \o <<"\n">> \o JoinLines(Tail(lines))

-----------------------------------------------------------------------------
(* Command runner *)

Statuses == {"OK", "WARN", "FAIL"}

\* What subprocess.run can do with a command: return a CompletedProcess
\* (kind "exit") or raise.  FileNotFoundError: no such binary;
\* TimeoutExpired: a SubprocessError, after 5 s; PermissionError: the binary
\* exists but is not executable (an OSError that is neither of the former).
Exit(code, out, err) == [kind |-> "exit", returncode |-> code, stdout |-> out, stderr |-> err]
Raises(exc) == [kind |-> exc, returncode |-> -1, stdout |-> <<>>, stderr |-> <<>>]

CmdOutcomes ==
    { Exit(0, <<"v", "1", "\n">>, <<>>),
      Exit(1, <<>>, <<" ", "e", "\n">>),
      Raises("FileNotFoundError"),
      Raises("TimeoutExpired"),
      Raises("PermissionError") }

\* A wider set of outcomes, for the functions applied on their own.
AllCmdOutcomes ==
    {Exit(code, out, err) : code \in {0, 1, 2},
                            out \in {<<>>, <<" ">>, <<"v", "1", "\n">>},
                            err \in {<<>>, <<" ", "e", "\n">>}}
    \cup {Raises("FileNotFoundError"), Raises("TimeoutExpired"), Raises("PermissionError")}

\* Python's `a or b` on strings
OrElse(a, b) == IF a # <<>> THEN a ELSE b

\* _run_command: [exc, success, output]; exc # "none" means the exception
\* left the function.
RunCommand(command, o) ==
    IF o.kind = "exit" THEN
        [exc |-> "none",
         success |-> (o.returncode = 0),
         output |-> OrElse(Strip(o.stdout), Strip(o.stderr))]
    ELSE IF o.kind \in {"FileNotFoundError", "TimeoutExpired"} THEN
        [exc |-> "none", success |-> FALSE, output |-> <<o.kind>>]
    ELSE
        [exc |-> o.kind, success |-> FALSE, output |-> <<>>]

-----------------------------------------------------------------------------
(* GPU probe *)

\* The state of the torch library: find_spec("torch") finds it or not, and
\* what importing and querying it does.
Torch(present, q) == [spec |-> present, query |-> q, name |-> <<"G", "P", "U">>]

TorchStates ==
    { Torch(FALSE, "none"),
      Torch(TRUE, "available"),
      Torch(TRUE, "unavailable"),
      Torch(TRUE, "raises") }

Ran(command, r) == [command |-> command, success |-> r.success]

\* Variant of DetectGpuStatus: falls back to nvidia-smi when the query raises.
DetectGpuStatus_FallbackOnError(torch, o) ==
    IF torch.spec /\ torch.query = "available" THEN
        [exc |-> "none", ran |-> <<>>,
         value |-> [status |-> "OK", detail |-> <<"GPU detected: ">> \o torch.name]]
    ELSE IF torch.spec /\ torch.query = "unavailable" THEN
        [exc |-> "none", ran |-> <<>>,
         value |-> [status |-> "WARN", detail |-> <<"PyTorch present but CUDA unavailable">>]]
    ELSE
        LET r == RunCommand(<<"nvidia-smi">>, o) IN
        IF r.exc # "none" THEN
            [exc |-> r.exc, ran |-> <<Ran("nvidia-smi", r)>>,
             value |-> [status |-> "none", detail |-> <<>>]]
        ELSE IF r.success THEN
            [exc |-> "none", ran |-> <<Ran("nvidia-smi", r)>>,
             value |-> [status |-> "OK", detail |-> <<"nvidia-smi output: ">> \o r.output]]
        ELSE
            [exc |-> "none", ran |-> <<Ran("nvidia-smi", r)>>,
             value |-> [status |-> "WARN", detail |-> <<"neither PyTorch nor nvidia-smi found">>]]

\* Variant of DetectGpuStatus: a missing GPU counts as a failure.
DetectGpuStatus_FailSeverity(torch, o) ==
    IF torch.spec THEN
        IF torch.query = "available" THEN
            [exc |-> "none", ran |-> <<>>,
             value |-> [status |-> "OK", detail |-> <<"GPU detected: ">> \o torch.name]]
        ELSE IF torch.query = "unavailable" THEN
            [exc |-> "none", ran |-> <<>>,
             value |-> [status |-> "FAIL", detail |-> <<"PyTorch present but CUDA unavailable">>]]
        ELSE
            [exc |-> "none", ran |-> <<>>,
             value |-> [status |-> "WARN",
                        detail |-> <<"PyTorch present but GPU query failed: ", "RuntimeError">>]]
    ELSE
        LET r == RunCommand(<<"nvidia-smi">>, o) IN
        IF r.exc # "none" THEN
            [exc |-> r.exc, ran |-> <<Ran("nvidia-smi", r)>>,
             value |-> [status |-> "none", detail |-> <<>>]]
        ELSE IF r.success THEN
            [exc |-> "none", ran |-> <<Ran("nvidia-smi", r)>>,
             value |-> [status |-> "OK", detail |-> <<"nvidia-smi output: ">> \o r.output]]
        ELSE
            [exc |-> "none", ran |-> <<Ran("nvidia-smi", r)>>,
             value |-> [status |-> "FAIL", detail |-> <<"neither PyTorch nor nvidia-smi found">>]]

\* _detect_gpu_status: [exc, ran, value]; ran lists the commands it handed to
\* _run_command, value is the returned record.
DetectGpuStatus(torch, o) ==
    IF torch.spec THEN
        IF torch.query = "available" THEN
            [exc |-> "none", ran |-> <<>>,
             value |-> [status |-> "OK", detail |-> <<"GPU detected: ">> \o torch.name]]
        ELSE IF torch.query = "unavailable" THEN
            [exc |-> "none", ran |-> <<>>,
             value |-> [status |-> "WARN", detail |-> <<"PyTorch present but CUDA unavailable">>]]
        ELSE
            [exc |-> "none", ran |-> <<>>,
             value |-> [status |-> "WARN",
                        detail |-> <<"PyTorch present but GPU query failed: ", "RuntimeError">>]]
    ELSE
        LET r == RunCommand(<<"nvidia-smi">>, o) IN
        IF r.exc # "none" THEN
            [exc |-> r.exc, ran |-> <<Ran("nvidia-smi", r)>>,
             value |-> [status |-> "none", detail |-> <<>>]]
        ELSE IF r.success THEN
            [exc |-> "none", ran |-> <<Ran("nvidia-smi", r)>>,
             value |-> [status |-> "OK", detail |-> <<"nvidia-smi output: ">> \o r.output]]
        ELSE
            [exc |-> "none", ran |-> <<Ran("nvidia-smi", r)>>,
             value |-> [status |-> "WARN", detail |-> <<"neither PyTorch nor nvidia-smi found">>]]

-----------------------------------------------------------------------------
(* .env probe *)

KeyPrefix == <<"O", "P", "E", "N", "A", "I", "_", "A", "P", "I", "_", "K", "E", "Y", "=">>

KeyName == SubSeq(KeyPrefix, 1, Len(KeyPrefix) - 1)

\* The lines a .env file is made of.
EnvLines ==
    { KeyPrefix \o <<"a">>,
      KeyPrefix,
      KeyPrefix \o <<" ">>,
      <<" ", "\t">> \o KeyPrefix \o <<"a", " ">>,
      KeyPrefix \o <<"=">>,
      <<"#">> \o KeyPrefix \o <<"a">>,
      KeyName,
      <<"X", "=", "a">>,
      <<>> }

RECURSIVE SeqsUpTo(_, _)
SeqsUpTo(S, n) ==
    IF n = 0 THEN {<<>>}
    ELSE LET shorter == SeqsUpTo(S, n - 1)
         IN  shorter \cup {Append(q, x) : q \in {t \in shorter : Len(t) = n - 1}, x \in S}

\* The state of the file at config.env_path: whether it exists, what
\* read_text does ("ok", or the exception it raises) and its lines.
EnvFile(exists, read, lines) == [exists |-> exists, read |-> read, lines |-> lines]

EnvFilesUpTo(n) ==
    { EnvFile(FALSE, "none", <<>>),
      EnvFile(TRUE, "OSError", <<>>),
      EnvFile(TRUE, "UnicodeDecodeError", <<>>) }
    \cup {EnvFile(TRUE, "ok", ls) : ls \in SeqsUpTo(EnvLines, n)}

EnvFiles == EnvFilesUpTo(MaxLines)

\* The files of at most one line: every outcome of the probe occurs among them.
ShortEnvFiles == EnvFilesUpTo(1)

\* The text read_text returns: every line followed by its terminator.
RECURSIVE Content(_)
Content(lines) ==
    IF lines = <<>> THEN <<>> ELSE Head(lines) \o <<"\n">> \o Content(Tail(lines))

\* Variant of ScanKey: the loop has no break, so any line with a value sets
\* has_key.
RECURSIVE ScanKey_NoBreak(_)
ScanKey_NoBreak(lines) ==
    IF lines = <<>> THEN FALSE
    ELSE LET stripped == Strip(Head(lines)) IN
         \/ (StartsWith(stripped, KeyPrefix) /\ AfterFirstEq(stripped) # <<>>)
         \/ ScanKey_NoBreak(Tail(lines))

\* The for loop of _check_env_file: the value of has_key after it.
RECURSIVE ScanKey(_)
ScanKey(lines) ==
    IF lines = <<>> THEN FALSE
    ELSE LET stripped == Strip(Head(lines)) IN
         IF StartsWith(stripped, KeyPrefix)
         THEN AfterFirstEq(stripped) # <<>>
         ELSE ScanKey(Tail(lines))

\* _check_env_file: [exc, value]
CheckEnvFile(f) ==
    IF ~f.exists THEN
        [exc |-> "none", value |-> [status |-> "WARN", detail |-> <<".env not found">>]]
    ELSE IF f.read = "OSError" THEN
        [exc |-> "none",
         value |-> [status |-> "WARN", detail |-> <<"reading .env failed: ", "OSError">>]]
    ELSE IF f.read # "ok" THEN
        [exc |-> f.read, value |-> [status |-> "none", detail |-> <<>>]]
    ELSE IF ScanKey(SplitLines(Content(f.lines))) THEN
        [exc |-> "none", value |-> [status |-> "OK", detail |-> <<"OPENAI_API_KEY found">>]]
    ELSE
        [exc |-> "none",
         value |-> [status |-> "WARN", detail |-> <<"OPENAI_API_KEY missing or empty">>]]

-----------------------------------------------------------------------------
(* Diagnostic engine *)

\* The keys of the dict run_env_diagnostics returns, in insertion order.
ReportOrder == <<"system", "python", "node", "npm", "pip", "gpu", "env_file", "summary">>

ProbeOrder == SubSeq(ReportOrder, 1, Len(ReportOrder) - 1)

Entry(name, status, detail) == [name |-> name, status |-> status, detail |-> detail]

\* results[key] = value on an insertion-ordered dict: an existing key keeps
\* its position and gets the new value, a new key goes last.
DictSet(d, e) ==
    IF \E i \in 1..Len(d) : d[i].name = e.name
    THEN [i \in 1..Len(d) |-> IF d[i].name = e.name THEN e ELSE d[i]]
    ELSE Append(d, e)

\* str.replace("\n", " ")
ReplaceNewlines(s) == [i \in 1..Len(s) |-> IF s[i] = "\n" THEN " " ELSE s[i]]

PlatformString == <<"L", "i", "n", "u", "x">>
SysVersion == <<"3", ".", "x", "\n", "[", "G", "C", "C", "]">>

SystemEntry == Entry("system", "OK", PlatformString)
PythonEntry == Entry("python", "OK", ReplaceNewlines(SysVersion))

NodeEntry(r) ==
    IF r.success THEN Entry("node", "OK", r.output)
    ELSE Entry("node", "WARN", <<"Node.js not found">>)

\* Variant of NpmEntry: the record is stored under the key of the node probe.
NpmEntry_NodeKey(r) ==
    IF r.success THEN Entry("node", "OK", r.output)
    ELSE Entry("node", "WARN", <<"npm not found">>)

NpmEntry(r) ==
    IF r.success THEN Entry("npm", "OK", r.output)
    ELSE Entry("npm", "WARN", <<"npm not found">>)

PipEntry(r) ==
    IF r.success THEN Entry("pip", "OK", r.output)
    ELSE Entry("pip", "FAIL", <<"pip not found">>)

\* Variant of StatusPriority: an unknown status ranks lowest.
StatusPriority_DefaultLowest(status) ==
    CASE status = "OK" -> 0
      [] status = "WARN" -> 1
      [] status = "FAIL" -> 2
      [] OTHER -> 0

\* STATUS_PRIORITY.get(status, 2)
StatusPriority(status) ==
    CASE status = "OK" -> 0
      [] status = "WARN" -> 1
      [] status = "FAIL" -> 2
      [] OTHER -> 2

\* Variant of HighestStatus: min instead of max.
HighestStatus_Min(records) ==
    LET best[i \in 1..Len(records)] ==
            IF i = 1 THEN records[1]
            ELSE IF StatusPriority(records[i]) < StatusPriority(best[i - 1])
                 THEN records[i] ELSE best[i - 1]
    IN  best[Len(records)]

\* max(status_records, key=...): the first element whose key is the largest.
HighestStatus(records) ==
    LET best[i \in 1..Len(records)] ==
            IF i = 1 THEN records[1]
            ELSE IF StatusPriority(records[i]) > StatusPriority(best[i - 1])
                 THEN records[i] ELSE best[i - 1]
    IN  best[Len(records)]

GenericMessage == <<"unknown status, manual review required">>

\* summary_messages.get(highest_status, <generic message>)
SummaryMessage(status) ==
    CASE status = "OK" -> <<"all checks passed">>
      [] status = "WARN" -> <<"some checks produced warnings">>
      [] status = "FAIL" -> <<"some checks failed">>
      [] OTHER -> GenericMessage

SummaryEntry(records) ==
    LET highest_status == HighestStatus(records)
    IN  Entry("summary", highest_status, SummaryMessage(highest_status))

-----------------------------------------------------------------------------
(* Formatting and persistence *)

\* strftime of the clock value
Timestamp(t) == <<ToString(t)>>

ReportLine(e) == <<e.name, ": [", e.status, "] ">> \o e.detail

\* format_report_lines
FormatReportLines(res, t) ==
    JoinLines(<< <<"HeartLink report">>, <<"generated at: ">> \o Timestamp(t), <<"--------">> >>
              \o [i \in 1..Len(res) |-> ReportLine(res[i])])

\* Variant of WriteText: the file is opened for appending.
WriteText_Append(old, data) == IF old = NoFile THEN data ELSE old \o data

\* Path.write_text(data): the file holds data, whatever it held before.
WriteText(old, data) == data

\* ensure_data_directory: Path.mkdir(parents=True, exist_ok=True) on a path
\* that is absent or a directory: [exc, dir]
EnsureDataDirectory(d) == [exc |-> "none", dir |-> "dir"]

-----------------------------------------------------------------------------
(* The program *)

\* What datetime.now() can be when the report is formatted.
ClockValues == {1, 2}

\* What input() can return.
RawInputs == {<<"1">>, <<" ", "1", " ">>, <<"2">>, <<"x">>, <<>>}

OldReport == <<"HeartLink report", "\n", "generated at: ", "0", "\n">>

Init ==
    /\ mode \in {"auto", "interactive"}
    /\ pc = "main"
    /\ choice = <<>>
    /\ runs = 0
    /\ data_dir \in {"absent", "dir"}
    /\ report_file \in {NoFile, OldReport}
    /\ results = <<>>
    /\ status_records = <<>>
    /\ spawned = <<>>
    /\ report_text = NoText
    /\ fault = NoFault
    /\ call_arg = NoCall
    /\ call_ret = NoCall

\* The exception exc leaves the function `from` and nothing above catches it.
Raise(exc, from) ==
    /\ pc' = "fault"
    /\ fault' = [exc |-> exc, from |-> from]
    /\ UNCHANGED <<results, status_records>>

cli_vars == <<mode, choice, runs, data_dir, report_file, report_text>>
call_vars == <<call_arg, call_ret>>

\* main: --auto-check runs the check once, otherwise the menu starts.
Main ==
    /\ pc = "main"
    /\ IF mode = "auto"
       THEN pc' = "check" /\ runs' = runs + 1
       ELSE pc' = "menu" /\ runs' = runs
    /\ UNCHANGED <<mode, choice, data_dir, report_file, results, status_records,
                   spawned, report_text, fault, call_arg, call_ret>>

\* interactive_menu: one pass of the loop up to the dispatch on choice.
Menu ==
    /\ pc = "menu"
    /\ \E raw \in RawInputs :
        /\ choice' = Strip(raw)
        /\ IF Strip(raw) = <<"1">> THEN
               /\ runs < MaxRuns
               /\ pc' = "check"
               /\ runs' = runs + 1
           ELSE IF Strip(raw) = <<"2">> THEN
               /\ pc' = "exit"
               /\ runs' = runs
           ELSE
               /\ pc' = "menu"
               /\ runs' = runs
    /\ UNCHANGED <<mode, data_dir, report_file, results, status_records,
                   spawned, report_text, fault, call_arg, call_ret>>

\* run_environment_check up to the first probe: ensure_data_directory, then
\* run_env_diagnostics starts with an empty dict and an empty status list.
Check ==
    /\ pc = "check"
    /\ LET m == EnsureDataDirectory(data_dir) IN
        IF m.exc # "none" THEN
            /\ Raise(m.exc, "ensure_data_directory")
            /\ UNCHANGED <<data_dir, spawned>>
        ELSE
            /\ data_dir' = m.dir
            /\ results' = <<>>
            /\ status_records' = <<>>
            /\ spawned' = <<>>
            /\ pc' = "system"
            /\ UNCHANGED fault
    /\ UNCHANGED <<mode, choice, runs, report_file, report_text, call_arg, call_ret>>

\* A probe stores its record and its status; control moves to `next`.
Record(e, next) ==
    /\ results' = DictSet(results, e)
    /\ status_records' = Append(status_records, e.status)
    /\ pc' = next
    /\ UNCHANGED fault

System ==
    /\ pc = "system"
    /\ Record(SystemEntry, "python")
    /\ UNCHANGED <<spawned, cli_vars, call_vars>>

Python ==
    /\ pc = "python"
    /\ Record(PythonEntry, "node")
    /\ UNCHANGED <<spawned, cli_vars, call_vars>>

Node ==
    /\ pc = "node"
    /\ \E o \in CmdOutcomes :
        LET r == RunCommand(<<"node", "--version">>, o) IN
        /\ spawned' = Append(spawned, Ran("node", r))
        /\ IF r.exc # "none" THEN Raise(r.exc, "_run_command")
           ELSE Record(NodeEntry(r), "npm")
    /\ UNCHANGED <<cli_vars, call_vars>>

Npm ==
    /\ pc = "npm"
    /\ \E o \in CmdOutcomes :
        LET r == RunCommand(<<"npm", "--version">>, o) IN
        /\ spawned' = Append(spawned, Ran("npm", r))
        /\ IF r.exc # "none" THEN Raise(r.exc, "_run_command")
           ELSE Record(NpmEntry(r), "pip")
    /\ UNCHANGED <<cli_vars, call_vars>>

Pip ==
    /\ pc = "pip"
    /\ \E o \in CmdOutcomes :
        LET r == RunCommand(<<"python", "-m", "pip", "--version">>, o) IN
        /\ spawned' = Append(spawned, Ran("pip", r))
        /\ IF r.exc # "none" THEN Raise(r.exc, "_run_command")
           ELSE Record(PipEntry(r), "gpu")
    /\ UNCHANGED <<cli_vars, call_vars>>

Gpu ==
    /\ pc = "gpu"
    /\ \E torch \in TorchStates, o \in CmdOutcomes :
        LET g == DetectGpuStatus(torch, o) IN
        /\ spawned' = spawned \o g.ran
        /\ IF g.exc # "none" THEN Raise(g.exc, "_run_command")
           ELSE Record(Entry("gpu", g.value.status, g.value.detail), "env_file")
    /\ UNCHANGED <<cli_vars, call_vars>>

EnvFileProbe ==
    /\ pc = "env_file"
    /\ \E f \in ShortEnvFiles :
        LET c == CheckEnvFile(f) IN
        IF c.exc # "none" THEN Raise(c.exc, "_check_env_file")
        ELSE Record(Entry("env_file", c.value.status, c.value.detail), "summary")
    /\ UNCHANGED <<spawned, cli_vars, call_vars>>

\* The rollup; run_env_diagnostics returns to run_environment_check.
Summary ==
    /\ pc = "summary"
    /\ results' = DictSet(results, SummaryEntry(status_records))
    /\ pc' = "format"
    /\ UNCHANGED <<status_records, spawned, fault, cli_vars, call_vars>>

\* display_results (prints only) and format_report_lines
Format ==
    /\ pc = "format"
    /\ \E t \in ClockValues : report_text' = FormatReportLines(results, t)
    /\ pc' = "write"
    /\ UNCHANGED <<mode, choice, runs, data_dir, report_file, results, status_records,
                   spawned, fault, call_arg, call_ret>>

\* report_path.write_text(report_text + "\n"); back to the caller.
Write ==
    /\ pc = "write"
    /\ report_file' = WriteText(report_file, report_text \o <<"\n">>)
    /\ pc' = IF mode = "auto" THEN "exit" ELSE "menu"
    /\ UNCHANGED <<mode, choice, runs, data_dir, results, status_records,
                   spawned, report_text, fault, call_arg, call_ret>>

Next ==
    \/ Main
    \/ Menu
    \/ Check
    \/ System
    \/ Python
    \/ Node
    \/ Npm
    \/ Pip
    \/ Gpu
    \/ EnvFileProbe
    \/ Summary
    \/ Format
    \/ Write

Spec == Init /\ [][Next]_vars

-----------------------------------------------------------------------------
(* _check_env_file applied to every .env file within the bounds *)

program_vars == <<mode, choice, runs, data_dir, report_file, results,
                  status_records, spawned, report_text, fault>>

InitEnv ==
    /\ mode = "auto"
    /\ pc = "call"
    /\ choice = <<>>
    /\ runs = 0
    /\ data_dir = "dir"
    /\ report_file = NoFile
    /\ results = <<>>
    /\ status_records = <<>>
    /\ spawned = <<>>
    /\ report_text = NoText
    /\ fault = NoFault
    /\ call_arg \in EnvFiles
    /\ call_ret = NoCall

CallCheckEnvFile ==
    /\ pc = "call"
    /\ call_ret' = CheckEnvFile(call_arg)
    /\ pc' = "returned"
    /\ UNCHANGED <<call_arg, program_vars>>

NextEnv == CallCheckEnvFile

SpecEnv == InitEnv /\ [][NextEnv]_vars

-----------------------------------------------------------------------------
(* The rollup applied to every list of statuses, valid or not *)

AnyStatus == Statuses \cup {"UNKNOWN"}

InitAgg ==
    /\ mode = "auto"
    /\ pc = "call"
    /\ choice = <<>>
    /\ runs = 0
    /\ data_dir = "dir"
    /\ report_file = NoFile
    /\ results = <<>>
    /\ status_records = <<>>
    /\ spawned = <<>>
    /\ report_text = NoText
    /\ fault = NoFault
    /\ call_arg \in [1..Len(ProbeOrder) -> AnyStatus]
    /\ call_ret = NoCall

CallSummary ==
    /\ pc = "call"
    /\ call_ret' = SummaryEntry(call_arg)
    /\ pc' = "returned"
    /\ UNCHANGED <<call_arg, program_vars>>

NextAgg == CallSummary

SpecAgg == InitAgg /\ [][NextAgg]_vars

-----------------------------------------------------------------------------
(* _detect_gpu_status applied to every state of the library and every outcome
   of nvidia-smi *)

InitGpu ==
    /\ mode = "auto"
    /\ pc = "call"
    /\ choice = <<>>
    /\ runs = 0
    /\ data_dir = "dir"
    /\ report_file = NoFile
    /\ results = <<>>
    /\ status_records = <<>>
    /\ spawned = <<>>
    /\ report_text = NoText
    /\ fault = NoFault
    /\ call_arg \in [torch : TorchStates, o : AllCmdOutcomes]
    /\ call_ret = NoCall

CallDetectGpuStatus ==
    /\ pc = "call"
    /\ call_ret' = DetectGpuStatus(call_arg.torch, call_arg.o)
    /\ pc' = "returned"
    /\ UNCHANGED <<call_arg, program_vars>>

NextGpu == CallDetectGpuStatus

SpecGpu == InitGpu /\ [][NextGpu]_vars

-----------------------------------------------------------------------------
(* Properties *)

\* The severity order OK < WARN < FAIL.
Severity(status) == CASE status = "OK" -> 0 [] status = "WARN" -> 1 [] status = "FAIL" -> 2

\* run_env_diagnostics has just returned its report to run_environment_check.
ReportReturned == pc \in {"format", "write"}

SummaryOf(res) == res[Len(res)]
Others(res) == SubSeq(res, 1, Len(res) - 1)
StatusOf(res, name) == (CHOOSE e \in {res[i] : i \in 1..Len(res)} : e.name = name).status
Names(res) == [i \in 1..Len(res) |-> res[i].name]
IsPrefix(a, b) == Len(a) <= Len(b) /\ SubSeq(b, 1, Len(a)) = a
Failed(command) == \E i \in 1..Len(spawned) : spawned[i].command = command /\ ~spawned[i].success

\* C1: in every returned report, summary.status is the maximum, by the
\* severity order OK < WARN < FAIL, of the statuses of the other records
\* (so it is never OK when another record is WARN or FAIL).
Thm_C1 ==
    ReportReturned =>
        /\ SummaryOf(results).name = "summary"
        /\ \A i \in 1..(Len(results) - 1) :
               Severity(results[i].status) <= Severity(SummaryOf(results).status)
        /\ \E i \in 1..(Len(results) - 1) :
               results[i].status = SummaryOf(results).status

Wit_C1 ==
    /\ ReportReturned
    /\ SummaryOf(results).status = "FAIL"
    /\ StatusOf(results, "node") = "WARN"
    /\ StatusOf(results, "npm") = "OK"

\* C2: no exception leaves _run_command, whatever the subprocess layer does.
CX_C2 == fault.from # "_run_command"

\* C3: every returned report holds the records system, python, node, npm,
\* pip, gpu, env_file, summary, each once and in this order, whichever probes
\* failed; and while a report is being built, a record once placed is neither
\* changed nor moved.
Thm_C3 ==
    /\ [](ReportReturned => Names(results) = ReportOrder)
    /\ [][pc # "check" => IsPrefix(results, results')]_vars

Wit_C3 ==
    /\ ReportReturned
    /\ Names(results) = ReportOrder
    /\ StatusOf(results, "node") = "WARN"
    /\ StatusOf(results, "pip") = "FAIL"
    /\ StatusOf(results, "env_file") = "WARN"

\* C4: in every returned report, summary.status is FAIL exactly when the pip
\* command failed; failures of the other probes leave it at WARN at most.
Thm_C4 ==
    ReportReturned => (SummaryOf(results).status = "FAIL" <=> Failed("pip"))

Wit_C4 ==
    /\ ReportReturned
    /\ ~Failed("pip")
    /\ Failed("node")
    /\ Failed("npm")
    /\ Failed("nvidia-smi")
    /\ StatusOf(results, "env_file") = "WARN"
    /\ SummaryOf(results).status = "WARN"

\* C5: no fault raised inside a probe aborts the run: the run never ends
\* with an uncaught exception.
CX_C5 == pc # "fault"

\* C6: _check_env_file returns OK exactly when the file exists, is readable
\* and the first line that, trimmed, starts with OPENAI_API_KEY= has something
\* after the "="; otherwise it returns WARN, even when a later matching line
\* has a value.
Matches(line) == StartsWith(Strip(line), KeyPrefix)
HasValue(line) == Len(Strip(line)) > Len(KeyPrefix)
FirstMatchHasValue(lines) ==
    \E i \in 1..Len(lines) :
        /\ Matches(lines[i])
        /\ HasValue(lines[i])
        /\ \A j \in 1..(i - 1) : ~Matches(lines[j])

Thm_C6 ==
    (pc = "returned" /\ call_ret.exc = "none") =>
        /\ call_ret.value.status \in {"OK", "WARN"}
        /\ call_ret.value.status = "OK" <=>
               (call_arg.exists /\ call_arg.read = "ok" /\ FirstMatchHasValue(call_arg.lines))

Wit_C6 ==
    /\ pc = "returned"
    /\ call_arg.exists
    /\ call_arg.read = "ok"
    /\ call_arg.lines = <<KeyPrefix, KeyPrefix \o <<"a">> >>
    /\ call_ret.exc = "none"
    /\ call_ret.value.status = "WARN"

\* C7: once a report has been written, the report file holds exactly the text
\* of the last write followed by one line terminator, whatever it held before
\* and however many reports were written; and a data directory that already
\* exists does not stop the run.
Thm_C7 ==
    /\ (report_text # NoText /\ pc # "write") => report_file = report_text \o <<"\n">>
    /\ fault.from # "ensure_data_directory"

Wit_C7 ==
    /\ runs = 2
    /\ pc = "menu"
    /\ Len(results) = Len(ReportOrder)
    /\ report_file = report_text \o <<"\n">>

\* C8: when torch is installed, _detect_gpu_status runs no command and its
\* record follows from the library alone (OK with the name of device 0, WARN
\* when no device is available, WARN when the query raises); only when torch
\* is not installed is nvidia-smi run.
Thm_C8 ==
    pc = "returned" =>
        LET t == call_arg.torch
            g == call_ret
        IN  /\ t.spec =>
                /\ g.ran = <<>>
                /\ g.exc = "none"
                /\ t.query = "available" =>
                       (g.value.status = "OK" /\ g.value.detail = <<"GPU detected: ">> \o t.name)
                /\ t.query \in {"unavailable", "raises"} => g.value.status = "WARN"
            /\ ~t.spec =>
                /\ Len(g.ran) = 1
                /\ g.ran[1].command = "nvidia-smi"

Wit_C8 ==
    /\ pc = "returned"
    /\ call_arg.torch.spec
    /\ call_arg.torch.query = "raises"
    /\ call_arg.o.kind = "exit"
    /\ call_arg.o.returncode = 0
    /\ call_ret.value.status = "WARN"
    /\ call_ret.ran = <<>>

\* C9: when a status outside OK, WARN, FAIL is among the recorded statuses,
\* the summary status is neither OK nor WARN; and whenever the summary status
\* is such a status, the summary detail is the generic message.
Thm_C9 ==
    pc = "returned" =>
        /\ (\E i \in DOMAIN call_arg : call_arg[i] \notin Statuses) =>
               call_ret.status \notin {"OK", "WARN"}
        /\ call_ret.status \notin Statuses => call_ret.detail = GenericMessage

Wit_C9 ==
    /\ pc = "returned"
    /\ call_arg[1] = "WARN"
    /\ call_arg[2] = "UNKNOWN"
    /\ call_arg[3] = "OK"
    /\ call_ret.status = "UNKNOWN"
    /\ call_ret.detail = GenericMessage

\* C10: in interactive mode the program ends only when the user chooses to
\* quit.
CX_C10 == (mode = "interactive" /\ pc \in {"exit", "fault"}) => choice = <<"2">>

====
